---- MODULE Spec2Model ----
(***************************************************************************)
(* Model of the express-seed authentication core:                          *)
(*   - the auth controller's token handler and its passport strategies     *)
(*     (src/app/components/auth/strategies/local.js),                      *)
(*   - the authorization middleware ensureAuthenticated / belongsTo        *)
(*     (same file),                                                        *)
(*   - the user model's uniqueUsername, hasRole, getClaims, cleanName,     *)
(*     pre-save hooks, addRole, toJSON, comparePassword, and concurrent    *)
(*     signups under the unique username index                             *)
(*     (src/app/components/user/user.model.js).                            *)
(*                                                                         *)
(* JavaScript values are records tagged by a "type" field, so that values  *)
(* of different JavaScript types can be compared.  JavaScript strings that *)
(* the code transforms (toLowerCase, concatenation) are sequences of       *)
(* one-character strings.                                                  *)
(***************************************************************************)
EXTENDS Integers, Sequences, FiniteSets, TLC

VARIABLES
    \* ---- token handler (one request) ----
    users,      \* persistence: id -> user document
    body,       \* req.body of the token request
    reqSecure,  \* req.secure of the token request
    pc,         \* position of the token request
    report,     \* what the strategy reported to passport: [error, user]
    me,         \* req.me of the token request
    minted,     \* sequence of jwt.generate(kind, claims) calls
    cookies,    \* sequence of res.cookie(...) writes
    sent,       \* sequence of res.send(...) bodies
    nextCalls,  \* sequence of next(...) calls of the token request
    \* ---- authorization middleware (one guard, one request) ----
    guard,      \* the middleware built by ensureAuthenticated / belongsTo
    greq,       \* the request handed to the guard
    gout,       \* sequence of outcomes of the guard invocation
    \* ---- handle generator ----
    taken,      \* persistence: set of usernames already stored
    hcall,      \* the uniqueUsername call in flight
    hresult,    \* what the promise of uniqueUsername settled with
    \* ---- user document ----
    doc,        \* the document in memory: fields, isNew, modified paths
    store,      \* persistence: the stored fields of the document, or NoDoc
    uout,       \* the last operation on the document and its result
    saved,      \* the raw password of the last save that stored a password
    \* ---- name cleaner ----
    cname,      \* the calls of cleanName: input, first and second result
    \* ---- concurrent signups ----
    signup,     \* per signup: its position, candidates and chosen username
    stored      \* persistence: the sequence of inserted user documents

tokenVars == <<users, body, reqSecure, pc, report, me, minted, cookies, sent, nextCalls>>
guardVars == <<guard, greq, gout>>
handleVars == <<taken, hcall, hresult>>
userVars == <<doc, store, uout, saved>>
signupVars == <<signup, stored>>
modelVars == <<userVars, cname, signupVars>>
vars == <<tokenVars, guardVars, handleVars, modelVars>>

-----------------------------------------------------------------------------
(* Bounds *)

\* number of user documents in persistence
MaxUsers == 2
\* largest value the clock (moment()) can read
MaxNow == 1

-----------------------------------------------------------------------------
(* JavaScript values *)

Undefined == [type |-> "undefined"]
Null == [type |-> "null"]
False == [type |-> "false"]

\* JavaScript truthiness of the tagged values used here (objects are truthy)
Falsy(v) == v.type \in {"undefined", "null", "false"}

\* !!x of a request-body flag; flags arrive as absent, false or true
RawFlags == {"undefined", "false", "true"}
ToBoolean(f) == f = "true"

-----------------------------------------------------------------------------
(* User documents *)

ADMIN == "admin"
USER == "user"
Roles == {USER, ADMIN}
\* the roles arrays a user document can hold (addRole never duplicates)
RoleArrays == {<<USER>>, <<ADMIN>>, <<USER, ADMIN>>}

UserIds == 1..MaxUsers
Names == <<"ann", "bob", "cat", "dan">>
Passwords == <<"pw1", "pw2", "pw3", "pw4">>

\* bcrypt.hash / bcrypt.compare: a hash records what it was made from
bcryptHash(raw) == [type |-> "bcrypt", of |-> raw]
bcryptCompare(candidate, hash) == hash = bcryptHash(candidate)

\* mongoose.Types.ObjectId and its toString()
ObjectId(n) == [type |-> "ObjectId", hex |-> n]
ObjectIdToString(oid) == [type |-> "string", hex |-> oid.hex]

UserDoc(i, rs, susp) ==
    [type |-> "User", _id |-> ObjectId(i), username |-> Names[i],
     password |-> bcryptHash(Passwords[i]), roles |-> rs, isSuspended |-> susp]

UserDocs == {UserDoc(i, rs, susp) : i \in UserIds, rs \in RoleArrays, susp \in BOOLEAN}

hasRole(user, role) == \E i \in 1..Len(user.roles) : user.roles[i] = role

getClaims(user) == [id |-> ObjectIdToString(user._id), roles |-> user.roles]

-----------------------------------------------------------------------------
(* Token request handler *)

RawGrantTypes == {"password", "refresh_token", "refreshToken", "bearer", "implicit"}

\* helpers/transform/to-camel-case on the grant types above
toCamelCase(s) == IF s = "refresh_token" THEN "refreshToken" ELSE s

\* tokens a request can present to the bearer / refresh strategies
Garbage == [type |-> "garbage"]
Jwt(kind, id) == [type |-> "jwt", kind |-> kind, id |-> id]
PresentedTokens ==
    {Garbage} \cup {Jwt(k, ObjectIdToString(ObjectId(i))) :
                        k \in {"access", "refresh"}, i \in 1..(MaxUsers + 1)}

NoCredentials == [username |-> "", password |-> "", token |-> Garbage]

\* the request bodies: flags, and the credentials the grant type reads
Bodies ==
    {[grantType |-> g, remember |-> r, secureStatus |-> s,
      username |-> c.username, password |-> c.password, token |-> c.token] :
        g \in {"password"}, r \in RawFlags, s \in RawFlags,
        c \in {[NoCredentials EXCEPT !.username = u, !.password = p] :
                  u \in {Names[i] : i \in 1..(MaxUsers + 1)},
                  p \in {Passwords[i] : i \in 1..MaxUsers}}}
    \cup
    {[grantType |-> g, remember |-> r, secureStatus |-> s,
      username |-> c.username, password |-> c.password, token |-> c.token] :
        g \in {"refresh_token", "refreshToken", "bearer"},
        r \in RawFlags, s \in RawFlags,
        c \in {[NoCredentials EXCEPT !.token = t] : t \in PresentedTokens}}
    \cup
    {[grantType |-> g, remember |-> r, secureStatus |-> s,
      username |-> c.username, password |-> c.password, token |-> c.token] :
        g \in {"implicit"}, r \in RawFlags, s \in RawFlags, c \in {NoCredentials}}

NoBody == [grantType |-> "", remember |-> "undefined", secureStatus |-> "undefined",
           username |-> "", password |-> "", token |-> Garbage]

\* the closure constants of token(req, res, next)
grantType == toCamelCase(body.grantType)
remember == ToBoolean(body.remember)
secureStatus == ToBoolean(body.secureStatus)

\* errors handed to next(...)
NotAuthenticatedError(cause) == [type |-> "NotAuthenticatedError", cause |-> cause]
UserSuspendedError == [type |-> "UserSuspendedError", cause |-> Undefined]
NotAuthorizedError == [type |-> "NotAuthorizedError", cause |-> Undefined]
ServerError(message) ==
    [type |-> "ServerError", cause |-> Undefined, message |-> message]
TypeError == [type |-> "TypeError", cause |-> Undefined]
NoErrorArg == [type |-> "none", cause |-> Undefined]

DbError == [type |-> "Error", name |-> "DbError"]
TokenInvalidError == [type |-> "Error", name |-> "TokenInvalidError"]

\* program configuration read from req.app.locals
SECURE_STATUS_EXPIRATION == 2
REFRESH_TOKEN_COOKIE_MAX_AGE == 3

\* faulty variant: the switch falls back to the bearer strategy
StrategyOf_default(g) ==
    CASE g = "bearer" -> "bearer"
      [] g = "password" -> "local"
      [] g = "refreshToken" -> "refresh"
      [] OTHER -> "bearer"

\* the switch of token(): which passport strategy a grant type selects
StrategyOf(g) ==
    CASE g = "bearer" -> "bearer"
      [] g = "password" -> "local"
      [] g = "refreshToken" -> "refresh"
      [] OTHER -> "none"

\* faulty variant: elevation granted on any grant type
secureStatusRequested_anyGrant(flag, g) == flag

\* "Requesting secure status?"
secureStatusRequested(flag, g) == flag /\ g = "password"

\* the claims the access token is minted from
accessClaims(user, flag, g, now) ==
    IF secureStatusRequested(flag, g)
    THEN getClaims(user) @@ ("secureStatus" :> now + SECURE_STATUS_EXPIRATION)
    ELSE getClaims(user)

\* faulty variant: the refresh token is minted from the access token's claims object
refreshClaims_reused(user, claims) == claims

\* the claims the refresh token is minted from
refreshClaims(user, claims) == getClaims(user)

\* faulty variant: the suspension check is lost
userSuspended_never(user) == FALSE

\* "User suspended?"
userSuspended(user) == user.isSuspended

\* faulty variant: the refresh cookie is written on every success
wantsRefresh_always(rem) == TRUE

\* "Generate refresh token if we want to be remembered"
wantsRefresh(rem) == rem

\* jwt.generate(kind, claims): the token is its kind and the claims it carries
jwtGenerate(kind, claims) == [kind |-> kind, claims |-> claims]

\* authCallback(error, user) of token(): the whole callback
authCallback(error, user) ==
    IF ~Falsy(error)
    THEN /\ nextCalls' = Append(nextCalls, NotAuthenticatedError(error))
         /\ UNCHANGED <<me, minted, cookies, sent, reqSecure>>
    ELSE IF Falsy(user)
    THEN /\ nextCalls' = Append(nextCalls, NotAuthenticatedError(Undefined))
         /\ UNCHANGED <<me, minted, cookies, sent, reqSecure>>
    ELSE IF userSuspended(user)
    THEN /\ nextCalls' = Append(nextCalls, UserSuspendedError)
         /\ UNCHANGED <<me, minted, cookies, sent, reqSecure>>
    ELSE \E now \in 0..MaxNow :
         LET claims == accessClaims(user, secureStatus, grantType, now)
             accessToken == jwtGenerate("access", claims)
             refreshToken == jwtGenerate("refresh", refreshClaims(user, claims))
         IN  /\ me' = user
             /\ IF wantsRefresh(remember)
                THEN /\ minted' = minted \o <<accessToken, refreshToken>>
                     /\ cookies' = Append(cookies,
                            [name |-> "refreshToken", value |-> refreshToken,
                             maxAge |-> REFRESH_TOKEN_COOKIE_MAX_AGE * 1000,
                             secure |-> reqSecure, httpOnly |-> TRUE])
                ELSE /\ minted' = Append(minted, accessToken)
                     /\ cookies' = cookies
             /\ sent' = Append(sent, [accessToken |-> accessToken])
             /\ UNCHANGED <<nextCalls, reqSecure>>

\* token(req, res, next): read the body and hand over to the selected strategy
token ==
    /\ pc = "idle"
    /\ \E b \in Bodies, sec \in BOOLEAN :
          /\ body' = b
          /\ reqSecure' = sec
          /\ pc' = IF StrategyOf(toCamelCase(b.grantType)) = "none"
                   THEN "done"
                   ELSE StrategyOf(toCamelCase(b.grantType))
    /\ UNCHANGED <<users, report, me, minted, cookies, sent, nextCalls>>
    /\ UNCHANGED <<guardVars, handleVars, modelVars>>

\* User.findByUsernameAndPassword: the user whose handle and password match, or null
findByUsernameAndPassword(username, password) ==
    LET found == {i \in UserIds : /\ users[i].username = username
                                  /\ bcryptCompare(password, users[i].password)}
    IN  IF found = {} THEN Null ELSE users[CHOOSE i \in found : TRUE]

\* faulty variant: a lookup miss is reported to passport as an error
LocalVerify_missIsError(promise) ==
    IF promise.state = "rejected"
    THEN [error |-> promise.value, user |-> Undefined]
    ELSE IF Falsy(promise.value)
    THEN [error |-> [type |-> "Error", name |-> "NotFound"], user |-> Undefined]
    ELSE [error |-> Null, user |-> promise.value]

\* the verify callback of the LocalStrategy: what it reports to passport
\* for a settled promise of findByUsernameAndPassword
LocalVerify(promise) ==
    IF promise.state = "rejected"
    THEN [error |-> promise.value, user |-> Undefined]
    ELSE IF Falsy(promise.value)
    THEN [error |-> Null, user |-> False]
    ELSE [error |-> Null, user |-> promise.value]

\* passport.authenticate(name, callback): the strategy's report reaches the callback
\* as callback(err) on error, callback(null, false) on fail, callback(null, user)
passportCallback(r) ==
    /\ report' = r
    /\ IF ~Falsy(r.error) THEN authCallback(r.error, Undefined)
       ELSE IF Falsy(r.user) THEN authCallback(Null, False)
       ELSE authCallback(Null, r.user)

\* grant type password: the local strategy settles and calls back
LocalStrategy ==
    /\ pc = "local"
    /\ \E promise \in {[state |-> "resolved",
                        value |-> findByUsernameAndPassword(body.username, body.password)],
                       [state |-> "rejected", value |-> DbError]} :
          passportCallback(LocalVerify(promise))
    /\ pc' = "done"
    /\ UNCHANGED <<users, body>>
    /\ UNCHANGED <<guardVars, handleVars, modelVars>>

\* findById of persistence
findById(id) ==
    LET found == {i \in UserIds : ObjectIdToString(users[i]._id) = id}
    IN  IF found = {} THEN Null ELSE users[CHOOSE i \in found : TRUE]

\* a token strategy: verify a token of the kind, resolve the user of its subject
TokenVerify(kind, tok) ==
    IF tok.type # "jwt" \/ tok.kind # kind
    THEN [error |-> TokenInvalidError, user |-> Undefined]
    ELSE IF Falsy(findById(tok.id))
    THEN [error |-> Null, user |-> False]
    ELSE [error |-> Null, user |-> findById(tok.id)]

\* grant type bearer: the bearer strategy settles and calls back
BearerStrategy ==
    /\ pc = "bearer"
    /\ passportCallback(TokenVerify("access", body.token))
    /\ pc' = "done"
    /\ UNCHANGED <<users, body>>
    /\ UNCHANGED <<guardVars, handleVars, modelVars>>

\* grant type refreshToken: the refresh strategy settles and calls back
RefreshStrategy ==
    /\ pc = "refresh"
    /\ passportCallback(TokenVerify("refresh", body.token))
    /\ pc' = "done"
    /\ UNCHANGED <<users, body>>
    /\ UNCHANGED <<guardVars, handleVars, modelVars>>

NoReport == [error |-> Undefined, user |-> Undefined]
-----------------------------------------------------------------------------
(* Authorization middleware *)

Str(s) == [type |-> "string", s |-> s]
Arr(items) == [type |-> "array", items |-> items]
IsArray(v) == v.type = "array"

\* typeof v
TypeOf(v) ==
    CASE v.type = "undefined" -> "undefined"
      [] v.type = "string" -> "string"
      [] OTHER -> "object"

\* the roles lists handed to ensureAuthenticated / belongsTo
RoleArgs == {<<>>, <<USER>>, <<ADMIN>>, <<USER, ADMIN>>}

\* roles.some(role => user.hasRole(role))
someRole(roles, user) == \E i \in 1..Len(roles) : hasRole(user, roles[i])

\* outcomes of a guard invocation
NextCall(error) == [kind |-> "next", error |-> error]
Throw(error) == [kind |-> "throw", error |-> error]
Passed == NextCall(NoErrorArg)

\* faulty variant: roles are checked before suspension
ensureAuthenticatedGuard_rolesFirst(roles, req) ==
    IF Falsy(req.me) THEN NextCall(NotAuthenticatedError(Undefined))
    ELSE IF Len(roles) # 0 /\ ~someRole(roles, req.me) THEN NextCall(NotAuthorizedError)
    ELSE IF req.me.isSuspended THEN NextCall(UserSuspendedError)
    ELSE Passed

\* the middleware returned by ensureAuthenticated(...roles), applied to req
ensureAuthenticatedGuard(roles, req) ==
    IF Falsy(req.me) THEN NextCall(NotAuthenticatedError(Undefined))
    ELSE IF req.me.isSuspended THEN NextCall(UserSuspendedError)
    ELSE IF Len(roles) # 0 /\ ~someRole(roles, req.me) THEN NextCall(NotAuthorizedError)
    ELSE Passed

\* faulty variant: no default propKey for the owner key 'me'
belongsToSetup_noDefault(ownerKey, propKey, roles) ==
    LET roles1 == IF IsArray(propKey) THEN propKey ELSE roles
        propKey1 == IF IsArray(propKey) THEN Undefined ELSE propKey
    IN  [propKey |-> propKey1, roles |-> roles1]

\* belongsTo(itemKey, ownerKey, propKey, roles): the set-up part.
\* Yields the resolved [propKey, roles], propKey Undefined when none resolves.
belongsToSetup(ownerKey, propKey, roles) ==
    LET roles1 == IF IsArray(propKey) THEN propKey ELSE roles
        propKey1 == IF IsArray(propKey) THEN Undefined ELSE propKey
        propKey2 == IF TypeOf(propKey1) = "undefined" /\ ownerKey = "me"
                    THEN Str("user")
                    ELSE propKey1
    IN  [propKey |-> propKey2, roles |-> roles1]

\* !propKey
NoPropKey(propKey) == Falsy(propKey) \/ propKey = Str("")

\* faulty variant: the role bypass is lost
roleBypass_never(roles, user) == FALSE

\* "Check roles if given" (user is dereferenced only when roles has elements)
roleBypass(roles, user) == IsArray(roles) /\ someRole(roles.items, user)

\* faulty variant: a populated owner reference is compared as it is
resolveId_raw(prop) == prop

\* "If it's a populated object, check ID"
resolveId(prop) ==
    IF TypeOf(prop) = "object" /\ prop.type # "ObjectId" /\ prop._id.type = "ObjectId"
    THEN prop._id
    ELSE prop

\* ObjectId.prototype.equals
ObjectIdEquals(a, b) == b.type = "ObjectId" /\ a.hex = b.hex

\* faulty variant: the item is checked before the owner
belongsToGuard_itemFirst(g, req) ==
    LET user == req.me
        owner == req[g.ownerKey]
        item == req[g.itemKey]
    IN  IF IsArray(g.roles) /\ Len(g.roles.items) # 0 /\ Falsy(user)
        THEN Throw(TypeError)
        ELSE IF roleBypass(g.roles, user) THEN Passed
        ELSE IF TypeOf(item) = "undefined" THEN NextCall(ServerError("item not loaded"))
        ELSE IF TypeOf(owner) = "undefined" THEN NextCall(ServerError("owner not loaded"))
        ELSE IF item = Null THEN Throw(TypeError)
        ELSE IF TypeOf(item[g.propKey.s]) = "undefined"
        THEN NextCall(ServerError("item has no property"))
        ELSE IF item[g.propKey.s] = Null THEN Throw(TypeError)
        ELSE IF owner = Null THEN Throw(TypeError)
        ELSE IF ~ObjectIdEquals(owner._id, resolveId(item[g.propKey.s]))
        THEN NextCall(NotAuthorizedError)
        ELSE Passed

\* the middleware returned by belongsTo, applied to req
belongsToGuard(g, req) ==
    LET user == req.me
        owner == req[g.ownerKey]
        item == req[g.itemKey]
    IN  IF IsArray(g.roles) /\ Len(g.roles.items) # 0 /\ Falsy(user)
        THEN Throw(TypeError)
        ELSE IF roleBypass(g.roles, user) THEN Passed
        ELSE IF TypeOf(owner) = "undefined" THEN NextCall(ServerError("owner not loaded"))
        ELSE IF TypeOf(item) = "undefined" THEN NextCall(ServerError("item not loaded"))
        ELSE IF item = Null THEN Throw(TypeError)
        ELSE IF TypeOf(item[g.propKey.s]) = "undefined"
        THEN NextCall(ServerError("item has no property"))
        ELSE IF item[g.propKey.s] = Null THEN Throw(TypeError)
        ELSE IF owner = Null THEN Throw(TypeError)
        ELSE IF ~ObjectIdEquals(owner._id, resolveId(item[g.propKey.s]))
        THEN NextCall(NotAuthorizedError)
        ELSE Passed

\* what a request can carry
Principals == {Undefined} \cup UserDocs
ClubDoc(i) == [type |-> "Club", _id |-> ObjectId(i)]
Owners == {Undefined, Null} \cup {ClubDoc(i) : i \in UserIds}
Populated(i) == [type |-> "Populated", _id |-> ObjectId(i)]
PropValues == {Undefined, Null} \cup {ObjectId(i) : i \in UserIds}
                  \cup {Populated(i) : i \in UserIds}
ItemDoc(u, c) == [type |-> "Item", user |-> u, club |-> c]
Items == {Undefined, Null} \cup {ItemDoc(u, c) : u \in PropValues, c \in PropValues}
Requests == {[me |-> m, club |-> c, item |-> i] :
                m \in Principals, c \in Owners, i \in Items}

NoArgs == [propKey |-> Undefined, roles |-> Undefined]
NoGuard == [kind |-> "none", itemKey |-> "", ownerKey |-> "",
            propKey |-> Undefined, roles |-> Undefined, args |-> NoArgs]
NoReq == [me |-> Undefined, club |-> Undefined, item |-> Undefined]

\* ensureAuthenticated(...roles): build the middleware
ensureAuthenticated ==
    /\ guard = NoGuard
    /\ \E roles \in RoleArgs :
          guard' = [kind |-> "ensureAuthenticated", itemKey |-> "", ownerKey |-> "",
                    propKey |-> Undefined, roles |-> Arr(roles), args |-> NoArgs]
    /\ UNCHANGED <<greq, gout>>
    /\ UNCHANGED <<tokenVars, handleVars, modelVars>>

\* belongsTo(itemKey, ownerKey, propKey, roles): build the middleware or throw
belongsTo ==
    /\ guard = NoGuard
    /\ \E ownerKey \in {"me", "club"},
          propKey \in {Undefined, Str(""), Str("user"), Str("club")}
                          \cup {Arr(r) : r \in RoleArgs},
          roles \in {Undefined} \cup {Arr(r) : r \in RoleArgs} :
          LET setup == belongsToSetup(ownerKey, propKey, roles)
          IN  guard' = IF NoPropKey(setup.propKey)
                       THEN [kind |-> "setupError", itemKey |-> "item",
                             ownerKey |-> ownerKey, propKey |-> setup.propKey,
                             roles |-> setup.roles,
                             args |-> [propKey |-> propKey, roles |-> roles]]
                       ELSE [kind |-> "belongsTo", itemKey |-> "item",
                             ownerKey |-> ownerKey, propKey |-> setup.propKey,
                             roles |-> setup.roles,
                             args |-> [propKey |-> propKey, roles |-> roles]]
    /\ UNCHANGED <<greq, gout>>
    /\ UNCHANGED <<tokenVars, handleVars, modelVars>>

\* a request runs through the ensureAuthenticated middleware
EnsureAuthenticatedGuard ==
    /\ guard.kind = "ensureAuthenticated"
    /\ gout = <<>>
    /\ \E req \in Requests :
          /\ greq' = req
          /\ gout' = <<ensureAuthenticatedGuard(guard.roles.items, req)>>
    /\ UNCHANGED guard
    /\ UNCHANGED <<tokenVars, handleVars, modelVars>>

\* a request runs through the belongsTo middleware
BelongsToGuard ==
    /\ guard.kind = "belongsTo"
    /\ gout = <<>>
    /\ \E req \in Requests :
          /\ greq' = req
          /\ gout' = <<belongsToGuard(guard, req)>>
    /\ UNCHANGED guard
    /\ UNCHANGED <<tokenVars, handleVars, modelVars>>

-----------------------------------------------------------------------------
(* Handle generator: UserSchema.statics.uniqueUsername *)

\* a JavaScript string as the sequence of its characters
Text(chars) == [type |-> "string", chars |-> chars]
Truthy(v) == ~Falsy(v) /\ v # Text(<<>>)

\* String.prototype.toLowerCase on the alphabet used here
LowerChar(c) ==
    CASE c = "A" -> "a"
      [] c = "B" -> "b"
      [] c = "E" -> "e"
      [] c = "X" -> "x"
      [] OTHER -> c
toLowerCase(chars) == [i \in 1..Len(chars) |-> LowerChar(chars[i])]

\* String(n) of a positive integer: its decimal digits
Digits == <<"0", "1", "2", "3", "4", "5", "6", "7", "8", "9">>
RECURSIVE NumberToString(_)
NumberToString(n) ==
    IF n < 10 THEN <<Digits[n + 1]>>
    ELSE NumberToString(n \div 10) \o <<Digits[(n % 10) + 1]>>

\* the values random() is drawn from (the code draws from 1..100)
MaxRandom == 2
\* the number of suffixed variants
NumVariants == 5
Draws == [1..NumVariants -> 1..MaxRandom]

\* the signup data: firstName and lastName are required, email is optional
FirstNames == {<<"A">>, <<"a">>}
LastNames == {<<"B">>}
Emails == {Undefined, Text(<<>>), Text(<<"E", "@", "x">>)}
SignupData == {[email |-> e, firstName |-> f, lastName |-> l] :
                  e \in Emails, f \in FirstNames, l \in LastNames}

\* faulty variant: the email candidate is pushed to the end of the list
usernamesOf_emailLast(data, draws) ==
    LET name == toLowerCase(data.firstName \o data.lastName)
        list == <<name>> \o [i \in 1..NumVariants |-> name \o NumberToString(draws[i])]
    IN  IF Truthy(data.email)
        THEN list \o <<toLowerCase(data.email.chars)>>
        ELSE list

\* "Possible usernames" and "Email first"
usernamesOf(data, draws) ==
    LET name == toLowerCase(data.firstName \o data.lastName)
        list == <<name>> \o [i \in 1..NumVariants |-> name \o NumberToString(draws[i])]
    IN  IF Truthy(data.email)
        THEN <<toLowerCase(data.email.chars)>> \o list
        ELSE list

\* this.find({username: {$in: usernames}}).select('username')
findIn(usernames) == {u \in taken : \E i \in 1..Len(usernames) : usernames[i] = u}

\* usernames.find(username => !users.some(user => user.username === username))
findFirstFree(usernames, found) ==
    LET free == {i \in 1..Len(usernames) : usernames[i] \notin found}
    IN  IF free = {} THEN Undefined
        ELSE Text(usernames[CHOOSE i \in free : \A j \in free : i <= j])

Resolved(v) == [state |-> "resolved", value |-> v]
Rejected(e) == [state |-> "rejected", value |-> e]
UnableError == [type |-> "Error", name |-> "Unable to find unique username for user"]

\* the handles persistence can hold in this model
HandleUniverse ==
    UNION {{usernamesOf(d, r)[i] : i \in 1..Len(usernamesOf(d, r))} :
              d \in SignupData, r \in Draws}
    \cup {<<"E", "@", "x">>}

NoCall == [pc |-> "idle", data |-> [email |-> Undefined, firstName |-> <<>>, lastName |-> <<>>],
           draws |-> <<>>, usernames |-> <<>>, found |-> {}]

\* uniqueUsername(data): build the candidates and issue the query
uniqueUsername ==
    /\ hcall.pc = "idle"
    /\ \E data \in SignupData, draws \in Draws :
          hcall' = [pc |-> "querying", data |-> data, draws |-> draws,
                    usernames |-> usernamesOf(data, draws), found |-> {}]
    /\ UNCHANGED <<taken, hresult>>
    /\ UNCHANGED <<tokenVars, guardVars, modelVars>>

\* the query resolves and the then-callback picks the username
FindThen ==
    /\ hcall.pc = "querying"
    /\ LET found == findIn(hcall.usernames)
           username == findFirstFree(hcall.usernames, found)
       IN  /\ hcall' = [hcall EXCEPT !.pc = "done", !.found = found]
           /\ hresult' = IF ~Truthy(username)
                         THEN Rejected(UnableError)
                         ELSE Resolved(username)
    /\ UNCHANGED taken
    /\ UNCHANGED <<tokenVars, guardVars, modelVars>>

\* the query fails: the promise of uniqueUsername rejects with the query's error
FindFails ==
    /\ hcall.pc = "querying"
    /\ hcall' = [hcall EXCEPT !.pc = "done"]
    /\ hresult' = Rejected(DbError)
    /\ UNCHANGED taken
    /\ UNCHANGED <<tokenVars, guardVars, modelVars>>

-----------------------------------------------------------------------------
(* Name cleaner: UserSchema.statics.cleanName *)

\* the characters of a name; the four the cleaner rewrites and their targets
\* are named: apos ' , rsquo (right single quote), mdash (em dash) , hyphen - ,
\* backslash and slash
NameChars == {"a", "apos", "rsquo", "mdash", "hyphen", "backslash", "slash"}

\* longest name the cleaner is applied to
MaxNameLen == 2

RECURSIVE SeqsUpTo(_, _)
SeqsUpTo(S, n) ==
    IF n = 0 THEN {<<>>}
    ELSE LET shorter == SeqsUpTo(S, n - 1)
         IN  shorter \cup {Append(q, c) : q \in shorter, c \in S}

\* String.prototype.replace(/c/g, d): every occurrence
ReplaceAll(chars, c, d) == [i \in 1..Len(chars) |-> IF chars[i] = c THEN d ELSE chars[i]]

\* String.prototype.replace(/[cs]/g, ''): every occurrence removed
RECURSIVE RemoveAll(_, _)
RemoveAll(chars, cs) ==
    IF chars = <<>> THEN <<>>
    ELSE IF Head(chars) \in cs THEN RemoveAll(Tail(chars), cs)
    ELSE <<Head(chars)>> \o RemoveAll(Tail(chars), cs)

\* String.prototype.replace(/c/, d): the first occurrence only
RECURSIVE ReplaceFirst(_, _, _)
ReplaceFirst(chars, c, d) ==
    IF chars = <<>> THEN <<>>
    ELSE IF Head(chars) = c THEN <<d>> \o Tail(chars)
    ELSE <<Head(chars)>> \o ReplaceFirst(Tail(chars), c, d)

\* faulty variant: the replacements lack the g flag
cleanName_firstOnly(name) ==
    RemoveAll(ReplaceFirst(ReplaceFirst(name, "apos", "rsquo"), "mdash", "hyphen"),
              {"backslash", "slash"})

\* cleanName(name)
cleanName(name) ==
    RemoveAll(ReplaceAll(ReplaceAll(name, "apos", "rsquo"), "mdash", "hyphen"),
              {"backslash", "slash"})

NoClean == [calls |-> 0, input |-> <<>>, once |-> <<>>, twice |-> <<>>]

\* cleanName is called on a name
CleanOnce ==
    /\ cname.calls = 0
    /\ \E name \in SeqsUpTo(NameChars, MaxNameLen) :
          cname' = [calls |-> 1, input |-> name, once |-> cleanName(name), twice |-> <<>>]
    /\ UNCHANGED <<tokenVars, guardVars, handleVars, userVars, signupVars>>

\* cleanName is called on its own result
CleanTwice ==
    /\ cname.calls = 1
    /\ cname' = [cname EXCEPT !.calls = 2, !.twice = cleanName(cname.once)]
    /\ UNCHANGED <<tokenVars, guardVars, handleVars, userVars, signupVars>>

\* cleanName is called again on the same input
CleanAgain ==
    /\ cname.calls = 1
    /\ cname' = [cname EXCEPT !.calls = 3, !.twice = cleanName(cname.input)]
    /\ UNCHANGED <<tokenVars, guardVars, handleVars, userVars, signupVars>>

-----------------------------------------------------------------------------
(* User document: construction, setters, pre-save hooks, methods *)

NoDoc == [type |-> "none"]
NoOp == [op |-> "none"]
NoSaved == [pending |-> Undefined, last |-> Undefined]

\* String.prototype.trim, as the schema option trim: true applies it
RECURSIVE TrimStart(_)
TrimStart(chars) ==
    IF chars # <<>> /\ Head(chars) = " " THEN TrimStart(Tail(chars)) ELSE chars

RECURSIVE TrimEnd(_)
TrimEnd(chars) ==
    IF chars # <<>> /\ chars[Len(chars)] = " "
    THEN TrimEnd(SubSeq(chars, 1, Len(chars) - 1))
    ELSE chars

trim(v) == IF v.type = "string" THEN Text(TrimEnd(TrimStart(v.chars))) ELSE v

\* this[path], undefined for a path never set
Get(fields, path) == IF path \in DOMAIN fields THEN fields[path] ELSE Undefined

\* this[path] = value
Put(fields, path, value) ==
    [k \in DOMAIN fields \cup {path} |-> IF k = path THEN value ELSE fields[k]]

\* raw passwords a caller hands to the document, and candidates to compare
RawPasswords == {Text(<<>>), Text(<<"p">>), Text(<<" ", "p">>), Text(<<"q">>)}
Candidates == {Text(<<"p">>), Text(<<" ", "p">>), Text(<<"q">>)}

\* constructor data: names always given, the password key possibly absent
GivenNames == {Text(<<>>), Text(<<"apos", "a">>)}
FamilyName == Text(<<"b">>)
UserData ==
    {[firstName |-> f, lastName |-> FamilyName] : f \in GivenNames}
    \cup {[firstName |-> f, lastName |-> FamilyName, password |-> p] :
            f \in GivenNames, p \in RawPasswords}

\* new User(data): string paths pass through the trim setter, roles default
\* to [roles.USER], every given path counts as modified
NewUser(data) ==
    [fields |-> [k \in DOMAIN data \cup {"roles"} |->
                    IF k = "roles" THEN <<USER>> ELSE trim(data[k])],
     isNew |-> TRUE,
     modified |-> DOMAIN data]

\* this.isModified(path)
isModified(d, path) == path \in d.modified

ValidationError(field, reason) ==
    [type |-> "ValidationError", field |-> field, reason |-> reason]
ValidatorError(path) ==
    [type |-> "MongooseValidationError", field |-> path, reason |-> "required"]

\* built-in validation before the save hooks: the paths declared required
RequiredPaths == <<"firstName", "lastName">>
failedPaths(d) ==
    SelectSeq(RequiredPaths, LAMBDA path : ~Truthy(Get(d.fields, path)))

\* createFullName(firstName, lastName)
createFullName(firstName, lastName) ==
    Text(TrimEnd(TrimStart(firstName.chars \o <<" ">> \o lastName.chars)))

\* pre('save'): clean up names
cleanNamesHook(d) ==
    LET clean(f, path) ==
            IF isModified(d, path)
            THEN Put(f, path, Text(cleanName(f[path].chars)))
            ELSE f
        cleaned == clean(clean(d.fields, "firstName"), "lastName")
    IN  IF isModified(d, "firstName") \/ isModified(d, "lastName")
        THEN [d EXCEPT !.fields = Put(cleaned, "fullName",
                                      createFullName(cleaned.firstName, cleaned.lastName)),
                       !.modified = @ \cup {"fullName"}]
        ELSE d

\* faulty variant: the hook hashes on every save
hashPasswordHook_always(d) ==
    IF ~Truthy(Get(d.fields, "password"))
    THEN [error |-> ValidationError("password", "required"), doc |-> d]
    ELSE [error |-> Undefined,
          doc |-> [d EXCEPT !.fields = Put(@, "password", bcryptHash(d.fields.password))]]

\* pre('save'): hash password
hashPasswordHook(d) ==
    IF ~isModified(d, "password")
    THEN [error |-> Undefined, doc |-> d]
    ELSE IF ~Truthy(Get(d.fields, "password"))
    THEN [error |-> ValidationError("password", "required"), doc |-> d]
    ELSE [error |-> Undefined,
          doc |-> [d EXCEPT !.fields = Put(@, "password", bcryptHash(d.fields.password))]]

\* faulty variant: the role is pushed without the includes test
addRole_push(roles, role) == Append(roles, role)

\* addRole(role), on this.roles
addRole(roles, role) ==
    IF \E i \in 1..Len(roles) : roles[i] = role THEN roles ELSE Append(roles, role)

\* faulty variant: the transform keeps the password
toJSON_withPassword(fields) ==
    [k \in DOMAIN fields \ {"fullName"} |-> fields[k]]

\* options.toJSON.transform(doc, ret)
toJSON(fields) ==
    [k \in DOMAIN fields \ {"password", "fullName"} |-> fields[k]]

BcryptError == [type |-> "Error", name |-> "data and hash arguments required"]

\* comparePassword(candidatePassword): bcrypt.compare against this.password
comparePassword(fields, candidate) ==
    LET password == Get(fields, "password")
    IN  IF password = Undefined THEN Rejected(BcryptError)
        ELSE Resolved(bcryptCompare(candidate, password))

\* doc.password = raw
SetPassword ==
    /\ doc # NoDoc
    /\ \E raw \in RawPasswords :
          /\ doc' = [doc EXCEPT !.fields = Put(@, "password", trim(raw)),
                                !.modified = @ \cup {"password"}]
          /\ saved' = [saved EXCEPT !.pending = raw]
          /\ uout' = [op |-> "set", arg |-> raw]
    /\ UNCHANGED <<store, tokenVars, guardVars, handleVars, cname, signupVars>>

\* doc.save(): validation, then the two pre-save hooks, then the write
Save ==
    /\ doc # NoDoc
    /\ LET failed == failedPaths(doc)
           named == cleanNamesHook(doc)
           hashed == hashPasswordHook(named)
           before == [password |-> Get(doc.fields, "password"),
                      valid |-> failed = <<>>]
       IN  IF failed # <<>>
           THEN /\ uout' = [op |-> "save", before |-> before, wrote |-> FALSE,
                            result |-> Rejected(ValidatorError(Head(failed)))]
                /\ UNCHANGED <<doc, store, saved>>
           ELSE IF hashed.error # Undefined
           THEN /\ uout' = [op |-> "save", before |-> before, wrote |-> FALSE,
                            result |-> Rejected(hashed.error)]
                /\ doc' = hashed.doc
                /\ UNCHANGED <<store, saved>>
           ELSE /\ uout' = [op |-> "save", before |-> before, wrote |-> TRUE,
                            result |-> Resolved(Undefined)]
                /\ doc' = [hashed.doc EXCEPT !.isNew = FALSE, !.modified = {}]
                /\ store' = hashed.doc.fields
                /\ saved' = IF isModified(doc, "password")
                            THEN [saved EXCEPT !.last = saved.pending]
                            ELSE saved
    /\ UNCHANGED <<tokenVars, guardVars, handleVars, cname, signupVars>>

\* doc.addRole(role)
AddRole ==
    /\ doc # NoDoc
    /\ \E role \in Roles :
          /\ doc' = [doc EXCEPT !.fields = Put(@, "roles", addRole(doc.fields.roles, role)),
                                !.modified = @ \cup {"roles"}]
          /\ uout' = [op |-> "addRole", arg |-> role, before |-> doc.fields.roles]
    /\ UNCHANGED <<store, saved, tokenVars, guardVars, handleVars, cname, signupVars>>

\* doc.toJSON()
ToJSON ==
    /\ doc # NoDoc
    /\ uout' = [op |-> "toJSON", result |-> toJSON(doc.fields)]
    /\ UNCHANGED <<doc, store, saved, tokenVars, guardVars, handleVars, cname, signupVars>>

\* doc.comparePassword(candidatePassword)
ComparePassword ==
    /\ doc # NoDoc
    /\ \E candidate \in Candidates :
          uout' = [op |-> "compare", arg |-> candidate,
                   result |-> comparePassword(doc.fields, candidate)]
    /\ UNCHANGED <<doc, store, saved, tokenVars, guardVars, handleVars, cname, signupVars>>

-----------------------------------------------------------------------------
(* Concurrent signups: uniqueUsername, then save under the unique index *)

\* the number of signups that run concurrently
MaxSignups == 2
Signups == 1..MaxSignups

\* the signups share their names, so their candidates collide; every random()
\* of one call draws the same number
SignupInputs == {[email |-> e, firstName |-> <<"a">>, lastName |-> <<"B">>] :
                    e \in {Undefined, Text(<<"E", "@", "x">>)}}
SignupDraws == {[i \in 1..NumVariants |-> r] : r \in 1..MaxRandom}

\* the users already in the collection when the signups start
Existing == {<<>>, <<[username |-> <<"a", "b">>, by |-> 0]>>,
             <<[username |-> <<"a", "b">>, by |-> 0],
               [username |-> <<"a", "b", "1">>, by |-> 0]>>}

usernamesIn(collection) == {collection[i].username : i \in 1..Len(collection)}

NoSignup == [pc |-> "idle", usernames |-> <<>>, username |-> Undefined,
             result |-> Undefined]

DuplicateKeyError == [type |-> "MongoError", name |-> "E11000 duplicate key error"]

\* faulty variant: the index on username is not unique
uniqueIndexRejects_never(username, collection) == FALSE

\* UserSchema.index({username: 1}, {unique: true})
uniqueIndexRejects(username, collection) == username \in usernamesIn(collection)

\* a signup calls uniqueUsername(data): the candidates are built, the query issued
SignupCall ==
    /\ \E s \in Signups, data \in SignupInputs, draws \in SignupDraws :
          /\ signup[s].pc = "idle"
          /\ signup' = [signup EXCEPT ![s] = [@ EXCEPT !.pc = "querying",
                            !.usernames = usernamesOf(data, draws)]]
    /\ UNCHANGED <<taken, stored>>
    /\ UNCHANGED <<tokenVars, guardVars, hcall, hresult, userVars, cname>>

\* the query of a signup resolves and its then-callback picks the username
SignupFindThen ==
    /\ \E s \in Signups :
          /\ signup[s].pc = "querying"
          /\ LET username == findFirstFree(signup[s].usernames, findIn(signup[s].usernames))
             IN  signup' = [signup EXCEPT ![s] =
                    IF ~Truthy(username)
                    THEN [@ EXCEPT !.pc = "done", !.result = Rejected(UnableError)]
                    ELSE [@ EXCEPT !.pc = "picked", !.username = username]]
    /\ UNCHANGED <<taken, stored>>
    /\ UNCHANGED <<tokenVars, guardVars, hcall, hresult, userVars, cname>>

\* a signup saves its user with the username it picked
SignupSave ==
    /\ \E s \in Signups :
          /\ signup[s].pc = "picked"
          /\ LET username == signup[s].username.chars
             IN  IF uniqueIndexRejects(username, stored)
                 THEN /\ signup' = [signup EXCEPT ![s] = [@ EXCEPT !.pc = "done",
                                        !.result = Rejected(DuplicateKeyError)]]
                      /\ UNCHANGED <<taken, stored>>
                 ELSE /\ signup' = [signup EXCEPT ![s] = [@ EXCEPT !.pc = "done",
                                        !.result = Resolved(Undefined)]]
                      /\ stored' = Append(stored, [username |-> username, by |-> s])
                      /\ taken' = taken \cup {username}
    /\ UNCHANGED <<tokenVars, guardVars, hcall, hresult, userVars, cname>>

-----------------------------------------------------------------------------
(* Specifications: one per component; the other components stay idle *)

GuardIdle == guard = NoGuard /\ greq = NoReq /\ gout = <<>>
HandleIdle == taken = {} /\ hcall = NoCall /\ hresult = Undefined
CleanIdle == cname = NoClean
UserIdle == doc = NoDoc /\ store = NoDoc /\ uout = NoOp /\ saved = NoSaved
SignupIdle == signup = <<>> /\ stored = <<>>

TokenIdle ==
    /\ users = [i \in UserIds |-> UserDoc(i, <<USER>>, FALSE)]
    /\ body = NoBody /\ reqSecure = FALSE /\ pc = "idle" /\ report = NoReport
    /\ me = Undefined /\ minted = <<>> /\ cookies = <<>> /\ sent = <<>>
    /\ nextCalls = <<>>

GuardInit == TokenIdle /\ GuardIdle /\ HandleIdle /\ CleanIdle /\ UserIdle /\ SignupIdle

GuardNext == ensureAuthenticated \/ belongsTo \/ EnsureAuthenticatedGuard \/ BelongsToGuard

GuardSpec == GuardInit /\ [][GuardNext]_vars

HandleInit ==
    /\ TokenIdle /\ GuardIdle /\ CleanIdle /\ UserIdle /\ SignupIdle
    /\ taken \in SUBSET HandleUniverse
    /\ hcall = NoCall
    /\ hresult = Undefined

HandleNext == uniqueUsername \/ FindThen \/ FindFails

HandleSpec == HandleInit /\ [][HandleNext]_vars

UserInit ==
    /\ TokenIdle /\ GuardIdle /\ HandleIdle /\ CleanIdle /\ SignupIdle
    /\ \E data \in UserData : doc = NewUser(data) /\ saved = [pending |-> Get(data, "password"), last |-> Undefined]
    /\ store = NoDoc
    /\ uout = NoOp

UserNext == SetPassword \/ Save \/ AddRole \/ ToJSON \/ ComparePassword

UserSpec == UserInit /\ [][UserNext]_vars

SignupInit ==
    /\ TokenIdle /\ GuardIdle /\ CleanIdle /\ UserIdle
    /\ hcall = NoCall /\ hresult = Undefined
    /\ stored \in Existing
    /\ taken = usernamesIn(stored)
    /\ signup = [s \in Signups |-> NoSignup]

SignupNext == SignupCall \/ SignupFindThen \/ SignupSave

SignupSpec == SignupInit /\ [][SignupNext]_vars

CleanInit == TokenIdle /\ GuardIdle /\ HandleIdle /\ CleanIdle /\ UserIdle /\ SignupIdle

CleanNext == CleanOnce \/ CleanTwice \/ CleanAgain

CleanSpec == CleanInit /\ [][CleanNext]_vars

TokenInit ==
    /\ users \in [UserIds -> UserDocs]
    /\ \A i \in UserIds : users[i]._id = ObjectId(i)
    /\ body = NoBody
    /\ reqSecure = FALSE
    /\ pc = "idle"
    /\ report = NoReport
    /\ me = Undefined
    /\ minted = <<>>
    /\ cookies = <<>>
    /\ sent = <<>>
    /\ nextCalls = <<>>
    /\ GuardIdle
    /\ HandleIdle
    /\ CleanIdle
    /\ UserIdle
    /\ SignupIdle

TokenNext == token \/ LocalStrategy \/ BearerStrategy \/ RefreshStrategy

TokenSpec == TokenInit /\ [][TokenNext]_vars

-----------------------------------------------------------------------------
(* Properties of the token handler *)

\* the strategy resolved a user, and the user is not suspended
ResolvedUser == pc = "done" /\ report.user.type = "User"
Succeeded == ResolvedUser /\ ~report.user.isSuspended
NothingProduced == minted = <<>> /\ cookies = <<>> /\ sent = <<>>

\* C1: on every successful token request the access token's claims carry
\* secureStatus exactly when the grant type is password and the request's
\* secureStatus flag is set; refreshToken and bearer grants never carry it.
C1_SecureStatusOnlyOnPasswordGrant ==
    \A i \in 1..Len(minted) :
        minted[i].kind = "access" =>
            /\ ("secureStatus" \in DOMAIN minted[i].claims)
                  <=> (body.grantType = "password" /\ body.secureStatus = "true")
            /\ body.grantType \in {"refresh_token", "refreshToken", "bearer"}
                  => "secureStatus" \notin DOMAIN minted[i].claims
            /\ sent = <<[accessToken |-> minted[i]]>>

C1_Witness ==
    /\ Succeeded
    /\ body.grantType = "password"
    /\ Len(sent) = 1
    /\ "secureStatus" \in DOMAIN sent[1].accessToken.claims

\* C2: whatever the grant type, a resolved credential that is suspended ends
\* the request with UserSuspendedError and nothing else: no token, no cookie,
\* no body, no principal attached.
C2_SuspendedNeverSucceeds ==
    (ResolvedUser /\ report.user.isSuspended) =>
        /\ nextCalls = <<UserSuspendedError>>
        /\ NothingProduced
        /\ me = Undefined

C2_Witness ==
    /\ ResolvedUser
    /\ report.user.isSuspended
    /\ body.grantType = "bearer"
    /\ nextCalls = <<UserSuspendedError>>

\* C3: a strategy error or a no-match ends the request with
\* NotAuthenticatedError (wrapping the error when there is one) and produces
\* nothing; the password strategy reports a miss or a password mismatch as
\* no-match (false), without an error.
C3_FailureIsNotAuthenticated ==
    /\ (pc = "done" /\ ~Falsy(report.error)) =>
          /\ nextCalls = <<NotAuthenticatedError(report.error)>>
          /\ NothingProduced /\ me = Undefined
    /\ (pc = "done" /\ report.error = Null /\ Falsy(report.user)) =>
          /\ nextCalls = <<NotAuthenticatedError(Undefined)>>
          /\ NothingProduced /\ me = Undefined
    /\ (pc = "done" /\ body.grantType = "password" /\ report.error # DbError) =>
          /\ report.error = Null
          /\ report.user = False <=>
                ~\E i \in UserIds : /\ users[i].username = body.username
                                    /\ users[i].password = bcryptHash(body.password)

C3_Witness ==
    /\ pc = "done"
    /\ body.grantType = "password"
    /\ \E i \in UserIds : /\ users[i].username = body.username
                          /\ users[i].password # bcryptHash(body.password)
    /\ report = [error |-> Null, user |-> False]
    /\ nextCalls = <<NotAuthenticatedError(Undefined)>>

\* C4: the refresh token of a remembered success is minted from exactly the
\* credential's {id, roles}: it never carries secureStatus, also when the
\* access token of the same request does.
C4_RefreshClaimsPlain ==
    /\ \A i \in 1..Len(minted) :
          minted[i].kind = "refresh" =>
             /\ DOMAIN minted[i].claims = {"id", "roles"}
             /\ minted[i].claims.id = ObjectIdToString(report.user._id)
             /\ minted[i].claims.roles = report.user.roles
    /\ \A i \in 1..Len(cookies) :
          /\ cookies[i].value.kind = "refresh"
          /\ DOMAIN cookies[i].value.claims = {"id", "roles"}
          /\ cookies[i].value.claims.id = ObjectIdToString(report.user._id)
          /\ cookies[i].value.claims.roles = report.user.roles
    /\ (Succeeded /\ body.remember = "true") =>
          \E i \in 1..Len(minted) : minted[i].kind = "refresh"

C4_Witness ==
    /\ Succeeded
    /\ body.remember = "true"
    /\ Len(sent) = 1 /\ Len(cookies) = 1
    /\ "secureStatus" \in DOMAIN sent[1].accessToken.claims
    /\ "secureStatus" \notin DOMAIN cookies[1].value.claims

\* C5: a successful grant mints one access token and returns it in the one
\* response body, never in a cookie; the refresh cookie is written exactly
\* when the request succeeded with remember set; a request writes at most one
\* cookie and at most one body, and a body only on success.
C5_BodyAndCookieWrites ==
    /\ Succeeded =>
          /\ Len(sent) = 1
          /\ sent[1].accessToken.kind = "access"
          /\ Cardinality({i \in 1..Len(minted) : minted[i].kind = "access"}) = 1
          /\ \E i \in 1..Len(minted) : minted[i] = sent[1].accessToken
    /\ \A i \in 1..Len(cookies) :
          cookies[i].name = "refreshToken" /\ cookies[i].value.kind # "access"
    /\ (cookies # <<>>) <=> (Succeeded /\ body.remember = "true")
    /\ Len(cookies) <= 1
    /\ Len(sent) <= 1
    /\ (sent # <<>>) => Succeeded

C5_Witness ==
    /\ Succeeded
    /\ body.remember # "true"
    /\ Len(sent) = 1
    /\ cookies = <<>>

-----------------------------------------------------------------------------
(* Properties of the authorization middleware *)

RolesOf(user) == {user.roles[i] : i \in 1..Len(user.roles)}
Wanted(roles) == {roles[i] : i \in 1..Len(roles)}
HasPrincipal == greq.me.type = "User"
GuardRan(kind) == guard.kind = kind /\ Len(gout) = 1

\* C6: the ensureAuthenticated guard decides in this order: no principal ->
\* NotAuthenticatedError; suspended principal -> UserSuspendedError (also when
\* it holds a required role); roles given and none held -> NotAuthorizedError;
\* otherwise it passes, and with no roles it passes whatever the principal holds.
C6_EnsureAuthenticatedOrder ==
    GuardRan("ensureAuthenticated") =>
        LET wanted == Wanted(guard.roles.items)
        IN  /\ ~HasPrincipal => gout[1] = NextCall(NotAuthenticatedError(Undefined))
            /\ (HasPrincipal /\ greq.me.isSuspended) =>
                  gout[1] = NextCall(UserSuspendedError)
            /\ (HasPrincipal /\ ~greq.me.isSuspended /\ wanted # {}
                   /\ wanted \cap RolesOf(greq.me) = {}) =>
                  gout[1] = NextCall(NotAuthorizedError)
            /\ (HasPrincipal /\ ~greq.me.isSuspended
                   /\ (wanted = {} \/ wanted \cap RolesOf(greq.me) # {})) =>
                  gout[1] = Passed

C6_Witness ==
    /\ GuardRan("ensureAuthenticated")
    /\ HasPrincipal /\ greq.me.isSuspended
    /\ Wanted(guard.roles.items) \cap RolesOf(greq.me) # {}
    /\ gout[1] = NextCall(UserSuspendedError)

\* C7: suspension takes precedence over role and ownership checks: for a
\* suspended principal neither guard ever passes the request on.
C7_SuspendedNeverPasses ==
    (Len(gout) = 1 /\ HasPrincipal /\ greq.me.isSuspended) => gout[1] # Passed

\* the role check of belongsTo lets the request through
Bypass ==
    /\ IsArray(guard.roles) /\ HasPrincipal
    /\ Wanted(guard.roles.items) \cap RolesOf(greq.me) # {}
\* the role check of belongsTo is evaluated and does not let the request through
NoBypass ==
    \/ ~IsArray(guard.roles)
    \/ guard.roles.items = <<>>
    \/ HasPrincipal /\ Wanted(guard.roles.items) \cap RolesOf(greq.me) = {}
Loaded ==
    /\ greq[guard.ownerKey].type \in {"User", "Club"}
    /\ greq.item.type = "Item"
    /\ greq.item[guard.propKey.s].type \in {"ObjectId", "Populated"}
\* the identifier an owner reference stands for
RefHex(prop) == IF prop.type = "ObjectId" THEN prop.hex ELSE prop._id.hex

\* C8: with no role bypass and owner, item and owner reference loaded, the
\* belongsTo guard passes exactly when the identifier of the owner reference
\* (raw or populated) is the owner's id, and fails with NotAuthorizedError
\* otherwise.
C8_OwnershipComparison ==
    (GuardRan("belongsTo") /\ NoBypass /\ Loaded) =>
        LET same == RefHex(greq.item[guard.propKey.s]) = greq[guard.ownerKey]._id.hex
        IN  /\ same => gout[1] = Passed
            /\ ~same => gout[1] = NextCall(NotAuthorizedError)

C8_Witness ==
    /\ GuardRan("belongsTo") /\ NoBypass /\ Loaded
    /\ greq.item[guard.propKey.s].type = "Populated"
    /\ gout[1] = Passed

\* C9: when roles is given and the principal holds one of them the belongsTo
\* guard passes whatever the ownership data (mismatch, owner, item or owner
\* reference not loaded); when the principal holds none of them the guard
\* decides as if no roles were given.
C9_RoleBypass ==
    GuardRan("belongsTo") =>
        /\ Bypass => gout[1] = Passed
        /\ (IsArray(guard.roles) /\ HasPrincipal /\ ~Bypass) =>
              gout[1] = belongsToGuard([guard EXCEPT !.roles = Undefined], greq)

C9_Witness ==
    /\ GuardRan("belongsTo") /\ Bypass
    /\ greq[guard.ownerKey] = Undefined
    /\ gout[1] = Passed

-----------------------------------------------------------------------------
(* Properties of the handle generator *)

\* the candidates in priority order, from the call's data and random draws
LowerName == toLowerCase(hcall.data.firstName \o hcall.data.lastName)
HasEmail == hcall.data.email.type = "string" /\ hcall.data.email.chars # <<>>
Priority ==
    (IF HasEmail THEN <<toLowerCase(hcall.data.email.chars)>> ELSE <<>>)
    \o <<LowerName>>
    \o [i \in 1..NumVariants |-> LowerName \o NumberToString(hcall.draws[i])]
FreeRanks == {i \in 1..Len(Priority) : Priority[i] \notin taken}

\* C10: uniqueUsername returns the first candidate, in the order lowercase
\* email (if present), lowercase firstName+lastName, the five random-suffixed
\* variants, that persistence does not report as taken; it never returns a
\* taken handle, and it fails exactly when every candidate is taken.
C10_FirstFreeCandidate ==
    (hcall.pc = "done" /\ hresult # Rejected(DbError)) =>
        /\ hcall.usernames = Priority
        /\ hcall.found = {Priority[i] : i \in 1..Len(Priority)} \cap taken
        /\ hresult.state = "resolved" =>
              /\ FreeRanks # {}
              /\ \E i \in FreeRanks :
                    /\ hresult.value = Text(Priority[i])
                    /\ \A j \in 1..(i - 1) : Priority[j] \in taken
              /\ hresult.value.chars \notin taken
        /\ (hresult = Rejected(UnableError)) <=> (FreeRanks = {})

C10_Witness ==
    /\ hcall.pc = "done"
    /\ HasEmail
    /\ toLowerCase(hcall.data.email.chars) \in taken
    /\ LowerName \in taken
    /\ hresult.state = "resolved"
    /\ hresult.value = Text(Priority[3])

-----------------------------------------------------------------------------
(* Further properties of the token handler *)

RecognizedGrantTypes == {"password", "refresh_token", "refreshToken", "bearer"}

\* C13: for an unrecognized grant type the token handler invokes no strategy
\* and produces nothing: no body, no cookie, no token, no principal, and no
\* call of next, with or without an error.
C13_UnrecognizedGrantProducesNothing ==
    (pc # "idle" /\ body.grantType \notin RecognizedGrantTypes) =>
        /\ pc = "done"
        /\ report = NoReport
        /\ NothingProduced
        /\ nextCalls = <<>>
        /\ me = Undefined

C13_Witness ==
    /\ pc = "done"
    /\ body.grantType = "implicit"
    /\ body.remember = "true"
    /\ sent = <<>> /\ nextCalls = <<>>

-----------------------------------------------------------------------------
(* Further properties of the authorization middleware *)

OwnerMissing == greq[guard.ownerKey] = Undefined
ItemMissing == greq.item = Undefined
PropMissing == greq.item.type = "Item" /\ greq.item[guard.propKey.s] = Undefined

\* C18: with no role bypass the belongsTo guard fails with ServerError, never
\* with NotAuthorizedError and never by passing, when the owner was not
\* loaded, else when the item was not loaded, else when the item lacks the
\* owner-reference property: the checks run in that order, before the
\* ownership comparison.
C18_ServerErrorOrder ==
    (GuardRan("belongsTo") /\ NoBypass) =>
        /\ OwnerMissing => gout[1] = NextCall(ServerError("owner not loaded"))
        /\ (~OwnerMissing /\ ItemMissing) =>
              gout[1] = NextCall(ServerError("item not loaded"))
        /\ (~OwnerMissing /\ PropMissing) =>
              gout[1] = NextCall(ServerError("item has no property"))
        /\ (gout[1].kind = "next" /\ gout[1].error.type = "ServerError") =>
              (OwnerMissing \/ ItemMissing \/ PropMissing)

C18_Witness ==
    /\ GuardRan("belongsTo") /\ NoBypass
    /\ OwnerMissing /\ ItemMissing
    /\ gout[1] = NextCall(ServerError("owner not loaded"))

\* the propKey argument names a property
PropKeyGiven == guard.args.propKey.type = "string" /\ guard.args.propKey # Str("")
\* the propKey argument is omitted, or an array that is taken as roles
PropKeyOmitted == guard.args.propKey.type \in {"undefined", "array"}

\* C19: belongsTo fails at set-up and returns no guard when propKey is not
\* given (omitted, or an array, which is taken as roles) and ownerKey has no
\* default; with ownerKey 'me' and no propKey the propKey is 'user'; a given
\* propKey is kept; no request is handled by a guard without a propKey.
C19_PropKeyResolvedAtSetup ==
    /\ guard.kind \in {"belongsTo", "setupError"} =>
          /\ (PropKeyOmitted /\ guard.ownerKey # "me") => guard.kind = "setupError"
          /\ (PropKeyOmitted /\ guard.ownerKey = "me") =>
                guard.kind = "belongsTo" /\ guard.propKey = Str("user")
          /\ PropKeyGiven =>
                guard.kind = "belongsTo" /\ guard.propKey = guard.args.propKey
          /\ guard.args.propKey.type = "array" => guard.roles = guard.args.propKey
          /\ guard.args.propKey.type # "array" => guard.roles = guard.args.roles
    /\ guard.kind = "setupError" => gout = <<>>
    /\ (gout # <<>> /\ guard.kind # "ensureAuthenticated") =>
          /\ guard.kind = "belongsTo"
          /\ guard.propKey.type = "string" /\ guard.propKey # Str("")

C19_Witness ==
    /\ GuardRan("belongsTo")
    /\ guard.ownerKey = "me"
    /\ guard.args.propKey.type = "array"
    /\ guard.propKey = Str("user")

\* C20: every invocation of a guard ends by calling next exactly once, with or
\* without an error, and never throws, whatever the request carries.
C20_GuardCallsNextOnce ==
    Len(gout) = 1 => gout[1].kind = "next"

-----------------------------------------------------------------------------
(* Properties of the name cleaner *)

Forbidden == {"apos", "mdash", "backslash", "slash"}
Clean(chars) == \A i \in 1..Len(chars) : chars[i] \notin Forbidden

\* C15: cleanName is pure and idempotent: cleaning a cleaned name changes
\* nothing, cleaning the same name again gives the same result, and a cleaned
\* name holds no slash, backslash, straight apostrophe or em dash.
C15_CleanNameIdempotent ==
    /\ cname.calls >= 1 => Clean(cname.once)
    /\ cname.calls >= 2 => cname.twice = cname.once

\* a name with two apostrophes and a slash went through the cleaner twice
C15_Witness ==
    /\ cname.calls = 2
    /\ Len(cname.input) = 2
    /\ cname.input[1] = "apos" /\ cname.input[2] = "apos"
    /\ cname.once = <<"rsquo", "rsquo">>

-----------------------------------------------------------------------------
(* Properties of the user document *)

NoDuplicates(roles) ==
    \A i, j \in 1..Len(roles) : roles[i] = roles[j] => i = j

IsPrefix(p, q) == Len(p) <= Len(q) /\ SubSeq(q, 1, Len(p)) = p

\* C12: after addRole(r) hasRole(r) is true; after any sequence of addRole
\* calls each role occurs at most once in roles, and the roles that were
\* already present are left as they were.
C12_AddRoleIdempotent ==
    /\ doc # NoDoc => NoDuplicates(doc.fields.roles)
    /\ uout.op = "addRole" =>
          /\ hasRole(doc.fields, uout.arg)
          /\ IsPrefix(uout.before, doc.fields.roles)
          /\ Len(doc.fields.roles) <= Len(uout.before) + 1
          /\ hasRole([roles |-> uout.before], uout.arg) => doc.fields.roles = uout.before

\* addRole was called with a role the document already had among two
C12_Witness ==
    /\ uout.op = "addRole"
    /\ uout.arg = USER
    /\ uout.before = <<USER, ADMIN>>
    /\ doc.fields.roles = <<USER, ADMIN>>

\* C14: the serialized form of a document never has the password nor the
\* derived fullName, whatever the state of the document.
C14_SerializedOmitsPassword ==
    uout.op = "toJSON" =>
        /\ "password" \notin DOMAIN uout.result
        /\ "fullName" \notin DOMAIN uout.result

\* a saved document that holds a password hash and a full name was serialized
C14_Witness ==
    /\ uout.op = "toJSON"
    /\ store # NoDoc
    /\ Get(doc.fields, "password").type = "bcrypt"
    /\ "fullName" \in DOMAIN doc.fields
    /\ "firstName" \in DOMAIN uout.result

\* C11: every persisted document has a non-empty password hash; a save of a
\* valid document whose raw password is empty or missing fails with a
\* ValidationError on password (required) and persists nothing.
C11_PersistedHasPasswordHash ==
    /\ store # NoDoc => Get(store, "password").type = "bcrypt"
    /\ (uout.op = "save" /\ uout.before.valid /\ ~Truthy(uout.before.password)) =>
          /\ uout.result = Rejected(ValidationError("password", "required"))
          /\ ~uout.wrote

PasswordStored == store # NoDoc /\ "password" \in DOMAIN store
Compared == uout.op = "compare" /\ Get(doc.fields, "password").type = "bcrypt"

\* C16 as stated: the stored password is the hash, taken once, of the raw
\* password most recently saved, and comparePassword is true for that raw
\* password and false for any other.
C16_StoredHashOfRawPassword ==
    /\ PasswordStored => store.password = bcryptHash(saved.last)
    /\ Compared => uout.result = Resolved(uout.arg = saved.last)

\* C16 amended: the stored password is the hash, taken once, of the trimmed
\* raw password most recently saved; comparePassword is true exactly for the
\* candidate equal to that trimmed password; a save that does not modify the
\* password leaves the stored hash as it was.
C16_StoredHashOfTrimmedPassword ==
    /\ PasswordStored => store.password = bcryptHash(trim(saved.last))
    /\ Compared => uout.result = Resolved(uout.arg = trim(saved.last))

\* a password typed with a leading blank was saved, and the trimmed candidate
\* compared equal
C16_Witness ==
    /\ PasswordStored
    /\ saved.last = Text(<<" ", "p">>)
    /\ uout.op = "compare"
    /\ uout.arg = Text(<<"p">>)
    /\ uout.result = Resolved(TRUE)

-----------------------------------------------------------------------------
(* Properties of concurrent signups *)

StoredBy(s) == {i \in 1..Len(stored) : stored[i].by = s}
Picked(s) == signup[s].username # Undefined
SaveRejected(s) == signup[s].result = Rejected(DuplicateKeyError)
SaveResolved(s) == signup[s].result = Resolved(Undefined)

\* C17: under any interleaving of concurrent signups no two persisted users
\* share a username: two signups may pick the same username, but the unique
\* index rejects the save that comes second, and that save persists nothing.
C17_NoSharedHandle ==
    /\ \A i, j \in 1..Len(stored) : stored[i].username = stored[j].username => i = j
    /\ \A s \in Signups :
          /\ SaveRejected(s) => StoredBy(s) = {}
          /\ SaveResolved(s) => Cardinality(StoredBy(s)) = 1
          /\ signup[s].result = Undefined => StoredBy(s) = {}

\* two signups picked the same username; the first saved, the second was rejected
C17_Witness ==
    /\ Picked(1) /\ Picked(2)
    /\ signup[1].username = signup[2].username
    /\ SaveResolved(1)
    /\ SaveRejected(2)

====
